---- MODULE Spec2Model ----
(***************************************************************************)
(* Model of the greedy task scheduler: the entities of models.py           *)
(* (Employee, Task, Schedule), the assignment engine of scheduler.py       *)
(* (AutoScheduler), and the list editing of scheduler_cli.py and the       *)
(* schedule requests of app.py.  Hours are small integers; a score is an   *)
(* exact rational kept as numerator over the employee's max_hours.         *)
(***************************************************************************)
EXTENDS Integers, Sequences, FiniteSets, TLC

\* ---------------------------------------------------------------- bounds
MaxEmployees == 2
MaxTasks == 2
MaxExternalCalls == 1

\* Python's None, for Task.assigned_employee and Task.deadline
None == 0

\* Task.assigned_employee that refers to an Employee object which has been
\* removed from the employee list
Gone == -1

\* ---------------------------------------------------------------- inputs
Skills == {"Python", "Rust"}

\* Employee(...) as constructed by the caller: current_hours defaults to 0.
\* One employee that fits the tasks exactly, an over-qualified one, one
\* below the minimum rank and one without the required skill.
EmployeePool ==
    { [training |-> {"Python"}, rank |-> 5, max_hours |-> 2, current_hours |-> 0],
      [training |-> {"Python"}, rank |-> 9, max_hours |-> 2, current_hours |-> 0],
      [training |-> {"Python"}, rank |-> 3, max_hours |-> 2, current_hours |-> 0],
      [training |-> {"Rust"},   rank |-> 5, max_hours |-> 2, current_hours |-> 0] }

\* Task(...) as constructed by the caller: assigned_employee defaults to
\* None; a deadline is a day number, or None.  One or two hours, at two
\* priorities; the tasks of the lower priority come with and without a
\* deadline.
TaskPool ==
    { [required_training |-> {"Python"}, duration |-> d, priority |-> pd[1],
       min_rank |-> 5, deadline |-> pd[2], assigned_employee |-> None] :
         d \in {1, 2}, pd \in { <<5, None>>, <<5, 1>>, <<9, None>> } }

\* a second set of inputs: employees in every band of the rank term (rank
\* minus min_rank 0, 2, 4 and 5), one employee without any skill and one
\* with one of the two skills the tasks require
EmployeePoolVaried ==
    { [training |-> {"Python", "Rust"}, rank |-> r, max_hours |-> 2,
       current_hours |-> 0] : r \in {5, 7, 9, 10} }
    \cup
    { [training |-> tr, rank |-> 5, max_hours |-> 2, current_hours |-> 0] :
         tr \in { {}, {"Python"} } }

TaskPoolVaried ==
    { [required_training |-> {"Python", "Rust"}, duration |-> d, priority |-> 5,
       min_rank |-> 5, deadline |-> dl, assigned_employee |-> None] :
         d \in {1, 2}, dl \in {None, 1} }

\* a third set of inputs, for the calls a caller makes between passes: an
\* employee that fits, one below the minimum rank and one with max_hours 0,
\* tasks of one or two hours with and without a deadline
EmployeePoolDirect ==
    { [training |-> {"Python"}, rank |-> 5, max_hours |-> 2, current_hours |-> 0],
      [training |-> {"Python"}, rank |-> 3, max_hours |-> 2, current_hours |-> 0],
      [training |-> {"Python"}, rank |-> 5, max_hours |-> 0, current_hours |-> 0] }

TaskPoolDirect ==
    { [required_training |-> {"Python"}, duration |-> d, priority |-> 5,
       min_rank |-> 5, deadline |-> dl, assigned_employee |-> None] :
         d \in {1, 2}, dl \in {None, 1} }

\* what the command-line interface lets its user enter: an employee that
\* fits and one below the minimum rank, tasks of one or two hours; add_task
\* asks for no deadline
EmployeePoolCli ==
    { [training |-> {"Python"}, rank |-> r, max_hours |-> 2, current_hours |-> 0] :
         r \in {3, 5} }

TaskPoolCli ==
    { [required_training |-> {"Python"}, duration |-> d, priority |-> 5,
       min_rank |-> 5, deadline |-> None, assigned_employee |-> None] :
         d \in {1, 2} }

\* what the forms of the web application have stored in the session: an
\* employee that fits and one below the minimum rank, tasks of one or two
\* hours; the task form has no deadline
EmployeePoolWeb ==
    { [training |-> {"Python"}, rank |-> r, max_hours |-> 2, current_hours |-> 0] :
         r \in {3, 5} }

TaskPoolWeb ==
    { [required_training |-> {"Python"}, duration |-> d, priority |-> 5,
       min_rank |-> 5, deadline |-> None, assigned_employee |-> None] :
         d \in {1, 2} }

\* a fourth set of inputs, for two passes that run at the same time: one
\* kind of employee, tasks of one or two hours
EmployeePoolConcurrent ==
    { [training |-> {"Python"}, rank |-> 5, max_hours |-> 2, current_hours |-> 0] }

TaskPoolConcurrent ==
    { [required_training |-> {"Python"}, duration |-> d, priority |-> 5,
       min_rank |-> 5, deadline |-> None, assigned_employee |-> None] :
         d \in {1, 2} }

\* the two callers of schedule_all() that are not serialized
Threads == {1, 2}

SeqsUpTo(S, n) == UNION { [1..k -> S] : k \in 0..n }

\* ---------------------------------------------------------------- state
VARIABLES
    employees,           \* Schedule.employees: list of Employee
    tasks,               \* Schedule.tasks: list of Task; assigned_employee is
                         \* an index into employees, None, or Gone
    unassigned_reasons,  \* AutoScheduler.unassigned_reasons: task id -> reasons
    pc,                  \* "idle", or "loop" inside schedule_all's for loop
    sorted_tasks,        \* the local sorted_tasks of schedule_all (task ids)
    pos,                 \* how many entries of sorted_tasks the loop has done
    returned,            \* [op, value] of the call that finished last
    pass_scores,         \* history: score of the employee selected per task
    prev_pass,           \* history: links, hours and scores at the last return
    since_pass,          \* history: calls made since the last returned pass
    pass_start,          \* history: since_pass when the running pass began
    clean_chain,         \* history: calls so far are schedule_all, reset, ...
    ext_calls,           \* history: number of assign_to / unassign calls made
                         \* from outside a pass
    threads              \* the schedule_all() calls that run concurrently on
                         \* the schedule, each with its locals; << >> when the
                         \* caller serializes its calls

vars == << employees, tasks, unassigned_reasons, pc, sorted_tasks, pos,
           returned, pass_scores, prev_pass, since_pass, pass_start,
           clean_chain, ext_calls, threads >>

EmpIds == DOMAIN employees
TaskIds == DOMAIN tasks

\* ---------------------------------------------------------------- models.py
RECURSIVE SumOver(_, _)
SumOver(f, S) ==
    IF S = {} THEN 0
    ELSE LET x == CHOOSE y \in S : TRUE IN f[x] + SumOver(f, S \ {x})

Max(a, b) == IF a >= b THEN a ELSE b

\* Employee.has_training
HasTraining(emp, required_training) == required_training \subseteq emp.training

\* can_work_hours that forgets to add the requested hours
CanWorkHoursNoAdd(emp, hours) == emp.current_hours <= emp.max_hours

\* can_work_hours that refuses an exact fit
CanWorkHoursStrict(emp, hours) == emp.current_hours + hours < emp.max_hours

\* Employee.can_work_hours
CanWorkHours(emp, hours) == emp.current_hours + hours <= emp.max_hours

\* Employee.available_hours
AvailableHours(emp) == Max(0, emp.max_hours - emp.current_hours)

\* Task.is_assigned
IsAssigned(task) == task.assigned_employee # None

\* can_be_assigned_to without the rank condition
CanBeAssignedToNoRank(task, emp) ==
    /\ HasTraining(emp, task.required_training)
    /\ CanWorkHours(emp, task.duration)

\* Task.can_be_assigned_to
CanBeAssignedTo(task, emp) ==
    /\ HasTraining(emp, task.required_training)
    /\ CanWorkHours(emp, task.duration)
    /\ emp.rank >= task.min_rank

\* an assign_hours that books the hours on every employee of the roster
AssignHoursEveryone(emps, e, hours) ==
    [x \in DOMAIN emps |-> [emps[x] EXCEPT !.current_hours = @ + hours]]

\* Employee.assign_hours, applied to employee e of the list emps
AssignHours(emps, e, hours) ==
    [emps EXCEPT ![e].current_hours = @ + hours]

\* Employee.reset_hours for every employee (first loop of Schedule.reset)
ResetHours(emps) == [e \in DOMAIN emps |-> [emps[e] EXCEPT !.current_hours = 0]]

\* Task.unassign for every task in list order (second loop of Schedule.reset):
\* each linked task subtracts its duration from its employee, then unlinks;
\* a link to an Employee object that is no longer in the list (Gone) takes
\* the hours from that object and leaves the list as it is
RECURSIVE UnassignAllHours(_, _, _)
UnassignAllHours(emps, tsks, k) ==
    IF k > Len(tsks) THEN emps
    ELSE IF tsks[k].assigned_employee \in DOMAIN emps
         THEN UnassignAllHours(
                 [emps EXCEPT ![tsks[k].assigned_employee].current_hours =
                                  @ - tsks[k].duration], tsks, k + 1)
         ELSE UnassignAllHours(emps, tsks, k + 1)

UnassignAllLinks(tsks) ==
    [t \in DOMAIN tsks |-> [tsks[t] EXCEPT !.assigned_employee = None]]

\* Schedule.reset
ResetEmployees(emps, tsks) == UnassignAllHours(ResetHours(emps), tsks, 1)
ResetTasks(tsks) == UnassignAllLinks(tsks)

\* Schedule.get_assigned_tasks / get_unassigned_tasks, as sets of task ids
GetAssignedTasks(tsks) == { t \in DOMAIN tsks : IsAssigned(tsks[t]) }
GetUnassignedTasks(tsks) == { t \in DOMAIN tsks : ~IsAssigned(tsks[t]) }

\* get_completion_rate that answers 0 for an empty task list
GetCompletionRateEmptyZero(tsks) ==
    IF tsks = << >> THEN [num |-> 0, den |-> 1]
    ELSE [num |-> Cardinality(GetAssignedTasks(tsks)) * 100, den |-> Len(tsks)]

\* Schedule.get_completion_rate, as the fraction num / den
GetCompletionRate(tsks) ==
    IF tsks = << >> THEN [num |-> 100, den |-> 1]
    ELSE [num |-> Cardinality(GetAssignedTasks(tsks)) * 100, den |-> Len(tsks)]

\* Schedule.get_statistics: the task counts, and the completion rate rounded
\* to hundredths of a percent
GetStatistics(emps, tsks) ==
    [total_employees  |-> Len(emps),
     total_tasks      |-> Len(tsks),
     assigned_tasks   |-> Cardinality(GetAssignedTasks(tsks)),
     unassigned_tasks |-> Cardinality(GetUnassignedTasks(tsks)),
     completion_rate  |->
         LET r == GetCompletionRate(tsks)
         IN (r.num * 200 + r.den) \div (2 * r.den)]

\* Schedule.is_valid
IsValid(emps, tsks) ==
    /\ \A e \in DOMAIN emps : ~(emps[e].current_hours > emps[e].max_hours)
    /\ \A t \in GetAssignedTasks(tsks) :
          CanBeAssignedTo(tsks[t], emps[tsks[t].assigned_employee])

\* ---------------------------------------------------------------- scheduler.py
\* a sort key that does not negate the priority
SortKeyAscending(task) ==
    [neg_priority |-> task.priority,
     kind |-> IF task.deadline # None THEN "datetime" ELSE "float",
     deadline |-> task.deadline]

\* the sort key of _sort_tasks_by_priority: (-priority, deadline or inf)
SortKey(task) ==
    [neg_priority |-> 0 - task.priority,
     kind |-> IF task.deadline # None THEN "datetime" ELSE "float",
     deadline |-> task.deadline]

\* key tuples a < b can be evaluated on: with equal first components Python
\* compares a datetime with float('inf'), which raises TypeError
KeyComparable(a, b) ==
    a.neg_priority # b.neg_priority \/ a.kind = b.kind

\* a comparison that also holds for equal keys, as an unstable sort would see
KeyLessOrEqual(a, b) ==
    IF a.neg_priority # b.neg_priority THEN a.neg_priority < b.neg_priority
    ELSE IF a.kind = "datetime" /\ b.kind = "datetime" THEN a.deadline <= b.deadline
    ELSE TRUE

\* tuple comparison a < b of two comparable keys
KeyLess(a, b) ==
    IF a.neg_priority # b.neg_priority THEN a.neg_priority < b.neg_priority
    ELSE IF a.kind = "datetime" /\ b.kind = "datetime" THEN a.deadline < b.deadline
    ELSE FALSE

\* sorted() raises: a comparison sort has to compare some deadline-bearing
\* task with some deadline-less task of the same priority to order that group
SortRaises(tsks) ==
    \E a, b \in DOMAIN tsks : ~KeyComparable(SortKey(tsks[a]), SortKey(tsks[b]))

\* stable ascending insertion of task id x into the sorted list of ids
RECURSIVE InsertTask(_, _, _)
InsertTask(x, sorted, tsks) ==
    IF sorted = << >> THEN << x >>
    ELSE IF KeyLess(SortKey(tsks[x]), SortKey(tsks[Head(sorted)]))
         THEN << x >> \o sorted
         ELSE << Head(sorted) >> \o InsertTask(x, Tail(sorted), tsks)

RECURSIVE SortPrefix(_, _)
SortPrefix(tsks, k) ==
    IF k = 0 THEN << >> ELSE InsertTask(k, SortPrefix(tsks, k - 1), tsks)

\* AutoScheduler._sort_tasks_by_priority (sorted() is stable)
SortTasksByPriority(tsks) == SortPrefix(tsks, Len(tsks))

\* AutoScheduler._get_eligible_employees: employee ids in roster order
GetEligibleEmployees(task, emps) ==
    SelectSeq([e \in 1..Len(emps) |-> e],
              LAMBDA e : CanBeAssignedTo(task, emps[e]))

\* the rank term with < in place of <= at the band limits
RankTermStrictLimits(rank_diff) ==
    IF rank_diff = 0 THEN 50
    ELSE IF rank_diff < 2 THEN 40
    ELSE IF rank_diff < 4 THEN 20
    ELSE 10

\* the rank term of _score_employee_for_task
RankTerm(rank_diff) ==
    IF rank_diff = 0 THEN 50
    ELSE IF rank_diff <= 2 THEN 40
    ELSE IF rank_diff <= 4 THEN 20
    ELSE 10

\* AutoScheduler._score_employee_for_task, as the fraction num / den with
\* den = max_hours: rank term + (available / max) * 30 + (1 - current / max) * 20
ScoreEmployeeForTask(task, emp) ==
    [num |-> RankTerm(emp.rank - task.min_rank) * emp.max_hours
               + AvailableHours(emp) * 30
               + (emp.max_hours - emp.current_hours) * 20,
     den |-> emp.max_hours]

\* the divisions by employee.max_hours in _score_employee_for_task raise
\* ZeroDivisionError
ScoreRaises(emp) == emp.max_hours = 0

NoScore == [num |-> 0, den |-> 0]

\* a >= b, which lets a later employee overtake an equal earlier one
ScoreGreaterOrEqual(a, b) == a.num * b.den >= b.num * a.den

\* a > b for two scores with positive denominators
ScoreGreater(a, b) == a.num * b.den > b.num * a.den

\* list.sort(key=score, reverse=True) is stable: x goes in front of the first
\* entry whose score is strictly smaller
RECURSIVE InsertScored(_, _, _, _)
InsertScored(x, sorted, task, emps) ==
    IF sorted = << >> THEN << x >>
    ELSE IF ScoreGreater(ScoreEmployeeForTask(task, emps[x]),
                         ScoreEmployeeForTask(task, emps[Head(sorted)]))
         THEN << x >> \o sorted
         ELSE << Head(sorted) >> \o InsertScored(x, Tail(sorted), task, emps)

RECURSIVE SortScored(_, _, _, _)
SortScored(eligible, k, task, emps) ==
    IF k = 0 THEN << >>
    ELSE InsertScored(eligible[k], SortScored(eligible, k - 1, task, emps),
                      task, emps)

\* AutoScheduler._select_best_employee
SelectBestEmployee(task, eligible, emps) ==
    Head(SortScored(eligible, Len(eligible), task, emps))

\* ', '.join(missing): the members of the set in its iteration order, which
\* follows the string hashes; ord is the order the hashes give to Skills
JoinMissing(missing, ord) == SelectSeq(ord, LAMBDA s : s \in missing)

\* the orders in which a set's members can be iterated
Orderings(S) ==
    { f \in [1..Cardinality(S) -> S] : \A x \in S : \E i \in DOMAIN f : f[i] = x }

\* get_unassignment_reasons without the rank reason
GetUnassignmentReasonsNoRank(task, emp, ord) ==
    (IF ~HasTraining(emp, task.required_training)
       THEN {[kind |-> "Missing required training",
              skills |-> JoinMissing(task.required_training \ emp.training, ord),
              a |-> 0, b |-> 0]}
       ELSE {})
    \cup
    (IF ~CanWorkHours(emp, task.duration)
       THEN {[kind |-> "Insufficient hours available", skills |-> << >>,
              a |-> AvailableHours(emp), b |-> task.duration]}
       ELSE {})

\* Task.get_unassignment_reasons: each reason string kept as its parts
GetUnassignmentReasons(task, emp, ord) ==
    (IF ~HasTraining(emp, task.required_training)
       THEN {[kind |-> "Missing required training",
              skills |-> JoinMissing(task.required_training \ emp.training, ord),
              a |-> 0, b |-> 0]}
       ELSE {})
    \cup
    (IF ~CanWorkHours(emp, task.duration)
       THEN {[kind |-> "Insufficient hours available", skills |-> << >>,
              a |-> AvailableHours(emp), b |-> task.duration]}
       ELSE {})
    \cup
    (IF emp.rank < task.min_rank
       THEN {[kind |-> "Rank too low", skills |-> << >>,
              a |-> emp.rank, b |-> task.min_rank]}
       ELSE {})

NoEmployeesReason ==
    [kind |-> "No employees available", skills |-> << >>, a |-> 0, b |-> 0]
UnknownReason ==
    [kind |-> "Unknown reason (this shouldn't happen)", skills |-> << >>,
     a |-> 0, b |-> 0]

\* reasons collected only from the employees that have the required training
GetAllUnassignmentReasonsSkilledOnly(task, emps, ord) ==
    IF Len(emps) = 0 THEN {NoEmployeesReason}
    ELSE LET all_reasons ==
               UNION { GetUnassignmentReasons(task, emps[e], ord) :
                         e \in { x \in DOMAIN emps :
                                    HasTraining(emps[x], task.required_training) } }
         IN IF all_reasons = {} THEN {UnknownReason} ELSE all_reasons

\* AutoScheduler._get_all_unassignment_reasons
GetAllUnassignmentReasons(task, emps, ord) ==
    IF Len(emps) = 0 THEN {NoEmployeesReason}
    ELSE LET all_reasons ==
               UNION { GetUnassignmentReasons(task, emps[e], ord) : e \in DOMAIN emps }
         IN IF all_reasons = {} THEN {UnknownReason} ELSE all_reasons

\* a return value that only asks whether anything was assigned
ScheduleAllResultAnyAssigned(tsks) ==
    IF Cardinality(GetAssignedTasks(tsks)) > 0 THEN "True" ELSE "False"

\* the value schedule_all returns: len(get_unassigned_tasks()) == 0
ScheduleAllResult(tsks) ==
    IF Cardinality(GetUnassignedTasks(tsks)) = 0 THEN "True" ELSE "False"

\* the default of unassigned_reasons.get(task.id, ["Unknown"])
UnknownFallback == [kind |-> "Unknown", skills |-> << >>, a |-> 0, b |-> 0]

\* AutoScheduler.get_unassigned_tasks_report: the 'reasons' of the record of
\* each unassigned task, read from the scheduler's dictionary reasons
GetUnassignedTasksReport(tsks, reasons) ==
    [t \in GetUnassignedTasks(tsks) |->
        IF t \in DOMAIN reasons THEN reasons[t] ELSE {UnknownFallback}]

\* 'utilization' of get_employee_workload_report, in hundredths of a percent
\* (round(..., 2) of current_hours / max_hours * 100), 0 when max_hours is 0
Utilization(emp) ==
    IF emp.max_hours > 0
    THEN (emp.current_hours * 20000 + emp.max_hours) \div (2 * emp.max_hours)
    ELSE 0

\* ---------------------------------------------------------------- history
Links(tsks) == [t \in DOMAIN tsks |-> tsks[t].assigned_employee]
Hours(emps) == [e \in DOMAIN emps |-> emps[e].current_hours]

NoPass == [valid |-> FALSE, links |-> << >>, hours |-> << >>, scores |-> << >>]

\* what the pass that returned last left behind; taken by the first call
\* that follows the return
Snapshot ==
    IF since_pass = "none"
    THEN [valid |-> TRUE, links |-> Links(tasks), hours |-> Hours(employees),
          scores |-> pass_scores]
    ELSE prev_pass

\* ---------------------------------------------------------------- actions
Init ==
    /\ employees \in SeqsUpTo(EmployeePool, MaxEmployees)
    /\ tasks \in SeqsUpTo(TaskPool, MaxTasks)
    /\ unassigned_reasons = << >>
    /\ pc = "idle"
    /\ sorted_tasks = << >>
    /\ pos = 0
    /\ returned = [op |-> "new", value |-> "None"]
    /\ pass_scores = [t \in DOMAIN tasks |-> NoScore]
    /\ prev_pass = NoPass
    /\ since_pass = "other"
    /\ pass_start = "other"
    /\ clean_chain = TRUE
    /\ ext_calls = 0
    /\ threads = << >>

\* the state after construction from the second set of inputs
InitVaried ==
    /\ employees \in SeqsUpTo(EmployeePoolVaried, MaxEmployees)
    /\ tasks \in SeqsUpTo(TaskPoolVaried, MaxTasks)
    /\ unassigned_reasons = << >>
    /\ pc = "idle"
    /\ sorted_tasks = << >>
    /\ pos = 0
    /\ returned = [op |-> "new", value |-> "None"]
    /\ pass_scores = [t \in DOMAIN tasks |-> NoScore]
    /\ prev_pass = NoPass
    /\ since_pass = "other"
    /\ pass_start = "other"
    /\ clean_chain = TRUE
    /\ ext_calls = 0
    /\ threads = << >>

\* the state after construction from the third set of inputs
InitDirect ==
    /\ employees \in SeqsUpTo(EmployeePoolDirect, MaxEmployees)
    /\ tasks \in SeqsUpTo(TaskPoolDirect, MaxTasks)
    /\ unassigned_reasons = << >>
    /\ pc = "idle"
    /\ sorted_tasks = << >>
    /\ pos = 0
    /\ returned = [op |-> "new", value |-> "None"]
    /\ pass_scores = [t \in DOMAIN tasks |-> NoScore]
    /\ prev_pass = NoPass
    /\ since_pass = "other"
    /\ pass_start = "other"
    /\ clean_chain = TRUE
    /\ ext_calls = 0
    /\ threads = << >>

\* a reset that also forgets the scheduler's stored reasons
ResetClearingReasons ==
    /\ pc = "idle"
    /\ employees' = ResetEmployees(employees, tasks)
    /\ tasks' = ResetTasks(tasks)
    /\ unassigned_reasons' = << >>
    /\ returned' = [op |-> "reset", value |-> "None"]
    /\ prev_pass' = Snapshot
    /\ since_pass' = IF since_pass = "none" THEN "reset" ELSE "other"
    /\ clean_chain' = (clean_chain /\ returned.op = "schedule_all")
    /\ UNCHANGED << threads, pc, sorted_tasks, pos, pass_scores, pass_start, ext_calls >>

\* Schedule.reset(), called by the owner of the schedule
Reset ==
    /\ pc = "idle"
    /\ employees' = ResetEmployees(employees, tasks)
    /\ tasks' = ResetTasks(tasks)
    /\ returned' = [op |-> "reset", value |-> "None"]
    /\ prev_pass' = Snapshot
    /\ since_pass' = IF since_pass = "none" THEN "reset" ELSE "other"
    /\ clean_chain' = (clean_chain /\ returned.op = "schedule_all")
    /\ UNCHANGED << threads, unassigned_reasons, pc, sorted_tasks, pos, pass_scores,
                    pass_start, ext_calls >>

\* schedule_all() that starts without calling schedule.reset()
ScheduleAllBeginNoReset ==
    /\ pc = "idle"
    /\ ~SortRaises(tasks)
    /\ unassigned_reasons' = << >>
    /\ sorted_tasks' = SortTasksByPriority(tasks)
    /\ pos' = 0
    /\ pc' = "loop"
    /\ pass_scores' = [t \in DOMAIN tasks |-> NoScore]
    /\ prev_pass' = Snapshot
    /\ pass_start' = since_pass
    /\ clean_chain' = (clean_chain /\ returned.op \in {"new", "reset"})
    /\ UNCHANGED << threads, employees, tasks, returned, since_pass, ext_calls >>

\* schedule_all() up to the for loop: reset, clear the reasons, sort
ScheduleAllBegin ==
    /\ pc = "idle"
    /\ ~SortRaises(tasks)
    /\ employees' = ResetEmployees(employees, tasks)
    /\ tasks' = ResetTasks(tasks)
    /\ unassigned_reasons' = << >>
    /\ sorted_tasks' = SortTasksByPriority(tasks)
    /\ pos' = 0
    /\ pc' = "loop"
    /\ pass_scores' = [t \in DOMAIN tasks |-> NoScore]
    /\ prev_pass' = Snapshot
    /\ pass_start' = since_pass
    /\ clean_chain' = (clean_chain /\ returned.op \in {"new", "reset"})
    /\ UNCHANGED << threads, returned, since_pass, ext_calls >>

\* schedule_all() when sorted() raises TypeError: the reset and the clear
\* have run, the exception leaves the call
ScheduleAllRaise ==
    /\ pc = "idle"
    /\ SortRaises(tasks)
    /\ employees' = ResetEmployees(employees, tasks)
    /\ tasks' = ResetTasks(tasks)
    /\ unassigned_reasons' = << >>
    /\ returned' = [op |-> "schedule_all", value |-> "TypeError"]
    /\ prev_pass' = Snapshot
    /\ since_pass' = "other"
    /\ clean_chain' = FALSE
    /\ UNCHANGED << threads, pc, sorted_tasks, pos, pass_scores, pass_start, ext_calls >>

\* one iteration of the for loop: _assign_task commits the task to the best
\* eligible employee (Task.assign_to)
AssignTaskCommit ==
    /\ pc = "loop"
    /\ pos < Len(sorted_tasks)
    /\ LET t == sorted_tasks[pos + 1]
           eligible == GetEligibleEmployees(tasks[t], employees)
       IN /\ eligible # << >>
          /\ LET best == SelectBestEmployee(tasks[t], eligible, employees)
             IN /\ CanBeAssignedTo(tasks[t], employees[best])
                /\ tasks' = [tasks EXCEPT ![t].assigned_employee = best]
                /\ employees' = AssignHours(employees, best, tasks[t].duration)
                /\ pass_scores' = [pass_scores EXCEPT ![t] =
                       ScoreEmployeeForTask(tasks[t], employees[best])]
    /\ pos' = pos + 1
    /\ UNCHANGED << threads, unassigned_reasons, pc, sorted_tasks, returned, prev_pass,
                    since_pass, pass_start, clean_chain, ext_calls >>

\* one iteration of the for loop: _assign_task returns False and the reasons
\* of every employee are stored under the task's id
AssignTaskReject ==
    /\ pc = "loop"
    /\ pos < Len(sorted_tasks)
    /\ LET t == sorted_tasks[pos + 1]
           eligible == GetEligibleEmployees(tasks[t], employees)
       IN /\ IF eligible = << >> THEN TRUE
             ELSE ~CanBeAssignedTo(tasks[t],
                     employees[SelectBestEmployee(tasks[t], eligible, employees)])
          /\ \E ord \in Orderings(Skills) :
                unassigned_reasons' =
                    (t :> GetAllUnassignmentReasons(tasks[t], employees, ord))
                        @@ unassigned_reasons
    /\ pos' = pos + 1
    /\ UNCHANGED << threads, employees, tasks, pc, sorted_tasks, returned, pass_scores,
                    prev_pass, since_pass, pass_start, clean_chain, ext_calls >>

\* the return statement of schedule_all()
ScheduleAllReturn ==
    /\ pc = "loop"
    /\ pos = Len(sorted_tasks)
    /\ pc' = "idle"
    /\ returned' = [op |-> "schedule_all", value |-> ScheduleAllResult(tasks)]
    /\ since_pass' = "none"
    /\ UNCHANGED << threads, employees, tasks, unassigned_reasons, sorted_tasks, pos,
                    pass_scores, prev_pass, pass_start, clean_chain, ext_calls >>

\* an assign_to that sets the link and books the hours without the test
AssignToUnchecked(t, e) ==
    /\ pc = "idle"
    /\ ext_calls < MaxExternalCalls
    /\ tasks' = [tasks EXCEPT ![t].assigned_employee = e]
    /\ employees' = AssignHours(employees, e, tasks[t].duration)
    /\ returned' = [op |-> "assign_to", value |-> "True"]
    /\ prev_pass' = Snapshot
    /\ since_pass' = "other"
    /\ clean_chain' = FALSE
    /\ ext_calls' = ext_calls + 1
    /\ UNCHANGED << threads, unassigned_reasons, pc, sorted_tasks, pos,
                    pass_scores, pass_start >>

\* Task.assign_to(employee), called from outside a pass
AssignTo(t, e) ==
    /\ pc = "idle"
    /\ ext_calls < MaxExternalCalls
    /\ IF CanBeAssignedTo(tasks[t], employees[e])
       THEN /\ tasks' = [tasks EXCEPT ![t].assigned_employee = e]
            /\ employees' = AssignHours(employees, e, tasks[t].duration)
            /\ returned' = [op |-> "assign_to", value |-> "True"]
       ELSE /\ UNCHANGED << tasks, employees >>
            /\ returned' = [op |-> "assign_to", value |-> "False"]
    /\ prev_pass' = Snapshot
    /\ since_pass' = "other"
    /\ clean_chain' = FALSE
    /\ ext_calls' = ext_calls + 1
    /\ UNCHANGED << threads, unassigned_reasons, pc, sorted_tasks, pos, pass_scores,
                    pass_start >>

\* Task.unassign(), called from outside a pass
Unassign(t) ==
    /\ pc = "idle"
    /\ ext_calls < MaxExternalCalls
    /\ IF tasks[t].assigned_employee # None
       THEN /\ employees' = [employees EXCEPT
                   ![tasks[t].assigned_employee].current_hours = @ - tasks[t].duration]
            /\ tasks' = [tasks EXCEPT ![t].assigned_employee = None]
       ELSE UNCHANGED << tasks, employees >>
    /\ returned' = [op |-> "unassign", value |-> "None"]
    /\ prev_pass' = Snapshot
    /\ since_pass' = "other"
    /\ clean_chain' = FALSE
    /\ ext_calls' = ext_calls + 1
    /\ UNCHANGED << threads, unassigned_reasons, pc, sorted_tasks, pos, pass_scores,
                    pass_start >>

\* ------------------------------------------- two passes, not serialized
IdleThread ==
    [pc |-> "idle", sorted_tasks |-> << >>, pos |-> 0, best |-> None,
     overlap |-> FALSE]

InitConcurrent ==
    /\ employees \in SeqsUpTo(EmployeePoolConcurrent, MaxEmployees)
    /\ tasks \in SeqsUpTo(TaskPoolConcurrent, MaxTasks)
    /\ unassigned_reasons = << >>
    /\ pc = "idle"
    /\ sorted_tasks = << >>
    /\ pos = 0
    /\ returned = [op |-> "new", value |-> "None"]
    /\ pass_scores = [t \in DOMAIN tasks |-> NoScore]
    /\ prev_pass = NoPass
    /\ since_pass = "other"
    /\ pass_start = "other"
    /\ clean_chain = TRUE
    /\ ext_calls = 0
    /\ threads = [i \in Threads |-> IdleThread]

\* what a thread's steps leave alone: the state of the serialized caller
SerialUnchanged ==
    UNCHANGED << pc, sorted_tasks, pos, returned, pass_scores, prev_pass,
                 since_pass, pass_start, clean_chain, ext_calls >>

\* thread i enters schedule_all(): reset, clear the reasons, sort
ThreadBegin(i) ==
    /\ threads[i].pc = "idle"
    /\ ~SortRaises(tasks)
    /\ employees' = ResetEmployees(employees, tasks)
    /\ tasks' = ResetTasks(tasks)
    /\ unassigned_reasons' = << >>
    /\ threads' = [threads EXCEPT ![i] =
          [pc |-> "select", sorted_tasks |-> SortTasksByPriority(tasks),
           pos |-> 0, best |-> None,
           overlap |-> \E j \in Threads \ {i} :
                          threads[j].pc \notin {"idle", "done"}]]
    /\ SerialUnchanged

\* thread i in _assign_task: _get_eligible_employees and
\* _select_best_employee for its next task; with no eligible employee the
\* task is turned away and its reasons are stored
ThreadSelect(i) ==
    /\ threads[i].pc = "select"
    /\ threads[i].pos < Len(threads[i].sorted_tasks)
    /\ LET t == threads[i].sorted_tasks[threads[i].pos + 1]
           eligible == GetEligibleEmployees(tasks[t], employees)
       IN IF eligible = << >>
          THEN /\ \E ord \in Orderings(Skills) :
                     unassigned_reasons' =
                         (t :> GetAllUnassignmentReasons(tasks[t], employees, ord))
                             @@ unassigned_reasons
               /\ threads' = [threads EXCEPT ![i].pos = @ + 1]
          ELSE /\ threads' = [threads EXCEPT
                     ![i].best = SelectBestEmployee(tasks[t], eligible, employees),
                     ![i].pc = "check"]
               /\ UNCHANGED unassigned_reasons
    /\ UNCHANGED << employees, tasks >>
    /\ SerialUnchanged

\* thread i in Task.assign_to: the test of can_be_assigned_to; when it
\* fails assign_to returns False and the task is turned away
ThreadCheck(i) ==
    /\ threads[i].pc = "check"
    /\ LET t == threads[i].sorted_tasks[threads[i].pos + 1]
       IN IF CanBeAssignedTo(tasks[t], employees[threads[i].best])
          THEN /\ threads' = [threads EXCEPT ![i].pc = "commit"]
               /\ UNCHANGED unassigned_reasons
          ELSE /\ \E ord \in Orderings(Skills) :
                     unassigned_reasons' =
                         (t :> GetAllUnassignmentReasons(tasks[t], employees, ord))
                             @@ unassigned_reasons
               /\ threads' = [threads EXCEPT ![i].pos = @ + 1,
                                              ![i].pc = "select",
                                              ![i].best = None]
    /\ UNCHANGED << employees, tasks >>
    /\ SerialUnchanged

\* thread i in Task.assign_to, after the test: set the link, book the hours
ThreadCommit(i) ==
    /\ threads[i].pc = "commit"
    /\ LET t == threads[i].sorted_tasks[threads[i].pos + 1]
           best == threads[i].best
       IN /\ tasks' = [tasks EXCEPT ![t].assigned_employee = best]
          /\ employees' = AssignHours(employees, best, tasks[t].duration)
    /\ threads' = [threads EXCEPT ![i].pos = @ + 1, ![i].pc = "select",
                                   ![i].best = None]
    /\ UNCHANGED unassigned_reasons
    /\ SerialUnchanged

\* thread i returns from schedule_all()
ThreadReturn(i) ==
    /\ threads[i].pc = "select"
    /\ threads[i].pos = Len(threads[i].sorted_tasks)
    /\ threads' = [threads EXCEPT ![i].pc = "done"]
    /\ UNCHANGED << employees, tasks, unassigned_reasons >>
    /\ SerialUnchanged

\* --------------------------------------------- scheduler_cli.py
\* SchedulerCLI.__init__: no employees, no tasks, no schedule
InitCli ==
    /\ employees = << >>
    /\ tasks = << >>
    /\ unassigned_reasons = << >>
    /\ pc = "idle"
    /\ sorted_tasks = << >>
    /\ pos = 0
    /\ returned = [op |-> "new", value |-> "None"]
    /\ pass_scores = << >>
    /\ prev_pass = NoPass
    /\ since_pass = "other"
    /\ pass_start = "other"
    /\ clean_chain = TRUE
    /\ ext_calls = 0
    /\ threads = << >>

\* list.remove: the sequence without its k-th entry
RemoveAt(seq, k) ==
    [i \in 1..(Len(seq) - 1) |-> IF i < k THEN seq[i] ELSE seq[i + 1]]

\* a task's link after the k-th employee has left the list: the link to that
\* employee keeps its object, the later employees move up by one
LinkAfterRemoval(link, k) ==
    IF link = k THEN Gone
    ELSE IF link > k THEN link - 1
    ELSE link

\* the reasons stored under the ids of the tasks, after the k-th task has
\* left the list and the later tasks moved up by one
ReasonsAfterRemoval(reasons, k) ==
    [t \in { IF u < k THEN u ELSE u - 1 : u \in DOMAIN reasons \ {k} } |->
        IF t < k THEN reasons[t] ELSE reasons[t + 1]]

\* what an edit of the lists does to the history of the passes
CliEditHistory ==
    /\ sorted_tasks' = << >>
    /\ pos' = 0
    /\ pass_scores' = [t \in DOMAIN tasks' |-> NoScore]
    /\ prev_pass' = NoPass
    /\ since_pass' = "other"
    /\ clean_chain' = FALSE
    /\ UNCHANGED << pc, pass_start, ext_calls, threads >>

\* SchedulerCLI.add_employee
CliAddEmployee ==
    /\ pc = "idle"
    /\ Len(employees) < MaxEmployees
    /\ \E emp \in EmployeePoolCli : employees' = Append(employees, emp)
    /\ returned' = [op |-> "add_employee", value |-> "None"]
    /\ UNCHANGED << tasks, unassigned_reasons >>
    /\ CliEditHistory

\* SchedulerCLI.delete_employee: self.employees.remove(employee)
CliDeleteEmployee ==
    /\ pc = "idle"
    /\ \E k \in EmpIds :
          /\ employees' = RemoveAt(employees, k)
          /\ tasks' = [t \in TaskIds |->
                 [tasks[t] EXCEPT !.assigned_employee = LinkAfterRemoval(@, k)]]
    /\ returned' = [op |-> "delete_employee", value |-> "None"]
    /\ UNCHANGED unassigned_reasons
    /\ CliEditHistory

\* SchedulerCLI.add_task
CliAddTask ==
    /\ pc = "idle"
    /\ Len(tasks) < MaxTasks
    /\ \E task \in TaskPoolCli : tasks' = Append(tasks, task)
    /\ returned' = [op |-> "add_task", value |-> "None"]
    /\ UNCHANGED << employees, unassigned_reasons >>
    /\ CliEditHistory

\* SchedulerCLI.delete_task: self.tasks.remove(task)
CliDeleteTask ==
    /\ pc = "idle"
    /\ \E k \in TaskIds :
          /\ tasks' = RemoveAt(tasks, k)
          /\ unassigned_reasons' = ReasonsAfterRemoval(unassigned_reasons, k)
    /\ returned' = [op |-> "delete_task", value |-> "None"]
    /\ UNCHANGED employees
    /\ CliEditHistory

\* SchedulerCLI.generate_schedule up to the loop of schedule_all(): refused
\* without employees or without tasks; a new Schedule over the two lists and
\* a new AutoScheduler
CliGenerateSchedule ==
    /\ Len(employees) > 0
    /\ Len(tasks) > 0
    /\ ScheduleAllBegin

\* --------------------------------------------------------- app.py
\* the session after the add_employee and add_task requests; employees and
\* tasks are what save_employees and save_tasks keep between requests
InitWeb ==
    /\ employees \in SeqsUpTo(EmployeePoolWeb, MaxEmployees)
    /\ tasks \in SeqsUpTo(TaskPoolWeb, MaxTasks)
    /\ unassigned_reasons = << >>
    /\ pc = "idle"
    /\ sorted_tasks = << >>
    /\ pos = 0
    /\ returned = [op |-> "new", value |-> "None"]
    /\ pass_scores = [t \in DOMAIN tasks |-> NoScore]
    /\ prev_pass = NoPass
    /\ since_pass = "other"
    /\ pass_start = "other"
    /\ clean_chain = TRUE
    /\ ext_calls = 0
    /\ threads = << >>

\* AutoScheduler.__init__: the reasons of a scheduler that was just made
NewSchedulerReasons == << >>

\* generate_schedule up to the loop of schedule_all(): get_current_schedule
\* builds the employees of the schedule and, in get_tasks, a second set of
\* Employee objects for the tasks' links, so the unassign calls of
\* Schedule.reset take their hours from the second set and the employees of
\* the schedule start the loop at 0; the scheduler is new
WebGenerateSchedule ==
    /\ pc = "idle"
    /\ ~SortRaises(tasks)
    /\ employees' = ResetHours(employees)
    /\ tasks' = ResetTasks(tasks)
    /\ unassigned_reasons' = NewSchedulerReasons
    /\ sorted_tasks' = SortTasksByPriority(tasks)
    /\ pos' = 0
    /\ pc' = "loop"
    /\ pass_scores' = [t \in DOMAIN tasks |-> NoScore]
    /\ prev_pass' = Snapshot
    /\ pass_start' = since_pass
    /\ clean_chain' = (clean_chain /\ returned.op \in {"new", "reset"})
    /\ UNCHANGED << threads, returned, since_pass, ext_calls >>

\* view_schedule: a new AutoScheduler over the schedule of the session; the
\* value is 'reasons' of each record of unassigned_tasks.  The request has
\* its own scheduler, so unassigned_reasons (the dictionary of the scheduler
\* that ran the pass) is not what the report reads, and stays as it is.
WebViewSchedule ==
    /\ pc = "idle"
    /\ returned' =
          [op |-> "view_schedule",
           value |-> IF GetUnassignedTasks(tasks) # {}
                     THEN GetUnassignedTasksReport(tasks, NewSchedulerReasons)
                     ELSE << >>]
    /\ UNCHANGED << threads, employees, tasks, unassigned_reasons, pc,
                    sorted_tasks, pos, pass_scores, prev_pass, since_pass,
                    pass_start, clean_chain, ext_calls >>

\* ------------------------------------------------------- specifications
Next ==
    \/ Reset
    \/ ScheduleAllBegin
    \/ ScheduleAllRaise
    \/ AssignTaskCommit
    \/ AssignTaskReject
    \/ ScheduleAllReturn

\* the engine's calls together with direct calls of the Task methods
NextCalls ==
    \/ Next
    \/ \E t \in TaskIds, e \in EmpIds : AssignTo(t, e)
    \/ \E t \in TaskIds : Unassign(t)

Spec == Init /\ [][Next]_vars

SpecCalls == Init /\ [][NextCalls]_vars

SpecVaried == InitVaried /\ [][Next]_vars

SpecDirect == InitDirect /\ [][NextCalls]_vars

\* the menu of the command-line interface
NextCli ==
    \/ CliAddEmployee
    \/ CliDeleteEmployee
    \/ CliAddTask
    \/ CliDeleteTask
    \/ CliGenerateSchedule
    \/ AssignTaskCommit
    \/ AssignTaskReject
    \/ ScheduleAllReturn

SpecCli == InitCli /\ [][NextCli]_vars

\* the schedule requests of the web application
NextWeb ==
    \/ WebGenerateSchedule
    \/ AssignTaskCommit
    \/ AssignTaskReject
    \/ ScheduleAllReturn
    \/ WebViewSchedule

SpecWeb == InitWeb /\ [][NextWeb]_vars

\* two schedule_all() calls on one schedule, interleaved step by step
NextConcurrent ==
    \/ \E i \in Threads : ThreadBegin(i)
    \/ \E i \in Threads : ThreadSelect(i)
    \/ \E i \in Threads : ThreadCheck(i)
    \/ \E i \in Threads : ThreadCommit(i)
    \/ \E i \in Threads : ThreadReturn(i)

SpecConcurrent == InitConcurrent /\ [][NextConcurrent]_vars

TypeOK ==
    /\ pc \in {"idle", "loop"}
    /\ pos \in 0..Len(tasks)
    /\ \A t \in TaskIds : tasks[t].assigned_employee \in {None} \cup EmpIds
    /\ ext_calls \in 0..MaxExternalCalls

\* ---------------------------------------------------------------- claims
\* schedule_all() has returned (no exception) and nothing was called since
PassReturned ==
    /\ pc = "idle"
    /\ returned.op = "schedule_all"
    /\ returned.value \in {"True", "False"}

\* sum of the durations of the tasks linked to employee e
LinkedHours(e) ==
    SumOver([t \in TaskIds |-> tasks[t].duration],
            { t \in TaskIds : tasks[t].assigned_employee = e })

HasReason(t, kind) ==
    /\ t \in DOMAIN unassigned_reasons
    /\ \E r \in unassigned_reasons[t] : r.kind = kind

\* C1: after schedule_all() returns, every employee has
\* current_hours <= max_hours
C1_CapacityInvariant ==
    PassReturned =>
        \A e \in EmpIds : employees[e].current_hours <= employees[e].max_hours

\* a pass filled an employee to the limit and turned a task away for hours
C1_Witness ==
    /\ PassReturned
    /\ \E e \in EmpIds : employees[e].current_hours = employees[e].max_hours
    /\ \E t \in TaskIds : HasReason(t, "Insufficient hours available")

\* C2: every commit of a pass links the task to an employee who, in the state
\* just before the commit, has the required skills, has room for the
\* duration and has at least the minimum rank
C2_EligibleAtCommit ==
    [][\A t \in TaskIds :
         (pc = "loop" /\ tasks'[t].assigned_employee # tasks[t].assigned_employee)
           => LET e == tasks'[t].assigned_employee
              IN /\ e # None
                 /\ tasks[t].required_training \subseteq employees[e].training
                 /\ employees[e].current_hours + tasks[t].duration
                       <= employees[e].max_hours
                 /\ employees[e].rank >= tasks[t].min_rank]_vars

\* a task was committed during a pass although another employee of the roster
\* lacks the rank or the skills for it
C2_Witness ==
    /\ pc = "loop"
    /\ \E t \in TaskIds, f \in EmpIds :
          /\ tasks[t].assigned_employee \notin {None, f}
          /\ \/ employees[f].rank < tasks[t].min_rank
             \/ ~(tasks[t].required_training \subseteq employees[f].training)

\* C3: after any sequence of schedule_all() and reset() calls each employee's
\* current_hours is the sum of the durations of the tasks linked to that employee
C3_HoursBookkeeping ==
    (pc = "idle" /\ ext_calls = 0) =>
        \A e \in EmpIds : employees[e].current_hours = LinkedHours(e)

\* C4: after reset(), called directly or as the first step of schedule_all(),
\* every employee's current_hours is 0 and every task is unassigned
C4_ResetPostcondition ==
    (ext_calls = 0 /\ (\/ pc = "idle" /\ returned.op = "reset"
                       \/ pc = "loop" /\ pos = 0)) =>
        /\ \A e \in EmpIds : employees[e].current_hours = 0
        /\ \A t \in TaskIds : tasks[t].assigned_employee = None

\* C5: in every state reachable by schedule_all(), reset(), assign_to() and
\* unassign(), every employee's current_hours is >= 0
C5_NonNegativeHours ==
    \A e \in EmpIds : employees[e].current_hours >= 0

\* C6: a schedule_all() that directly follows a schedule_all() ends with the
\* same links and the same current_hours as the first one
C6_RerunSameResult ==
    (PassReturned /\ pass_start = "none") =>
        /\ Links(tasks) = prev_pass.links
        /\ Hours(employees) = prev_pass.hours

\* C7: in schedule_all(); reset(); schedule_all() on freshly built entities
\* (and on any longer alternation of the two calls) the later pass ends with
\* the same links and the same selection scores as the pass before it
C7_DeterminismWithReset ==
    (PassReturned /\ pass_start = "reset" /\ clean_chain) =>
        /\ Links(tasks) = prev_pass.links
        /\ pass_scores = prev_pass.scores

\* the second pass of such a sequence has returned with a task committed
C7_Witness ==
    /\ PassReturned
    /\ pass_start = "reset"
    /\ clean_chain
    /\ prev_pass.valid
    /\ \E t \in TaskIds : tasks[t].assigned_employee # None /\ pass_scores[t] # NoScore

\* C8: schedule_all() returns True exactly when no task is unassigned at the
\* return, and False exactly when some task was turned away
C8_ReturnValue ==
    PassReturned =>
        /\ (returned.value = "True") <=>
              (\A t \in TaskIds : tasks[t].assigned_employee # None)
        /\ (returned.value = "False") <=> (DOMAIN unassigned_reasons # {})

\* a pass returned False with one task committed and another turned away
C8_Witness ==
    /\ PassReturned
    /\ returned.value = "False"
    /\ \E t \in TaskIds : tasks[t].assigned_employee # None
    /\ \E t \in TaskIds : tasks[t].assigned_employee = None

\* C9: right after schedule_all(), with no outside mutation, is_valid() is True
C9_ValidAfterPass ==
    (PassReturned /\ ext_calls = 0) => IsValid(employees, tasks)

\* C10: schedule_all() on well-formed input ends without raising, has decided
\* every task once, and leaves each task assigned or with a non-empty reason list
C10_NoFault ==
    (pc = "idle" /\ returned.op = "schedule_all") =>
        /\ returned.value # "TypeError"
        /\ pos = Len(tasks)
        /\ \A t \in TaskIds :
              \/ tasks[t].assigned_employee # None
              \/ /\ t \in DOMAIN unassigned_reasons
                 /\ unassigned_reasons[t] # {}

\* the running pass has made its decision about task t: it committed it
\* or stored reasons for it
Decided(t) ==
    \/ tasks[t].assigned_employee # None
    \/ t \in DOMAIN unassigned_reasons

\* current_hours of employee e when the loop of the last pass started
StartHours(e) == employees[e].current_hours - LinkedHours(e)

\* employee e has the skills, the rank and, at the start of the loop, the
\* room for task t
CandidateAtStart(e, t) ==
    /\ tasks[t].required_training \subseteq employees[e].training
    /\ employees[e].rank >= tasks[t].min_rank
    /\ StartHours(e) + tasks[t].duration <= employees[e].max_hours

\* C11: inside a pass a task of strictly higher priority is decided before one
\* of lower priority; so when A (higher) and B (lower) have the same single
\* candidate, who has room for either but not for both, the pass ends with A
\* assigned to that employee and B unassigned
C11_PriorityOrdering ==
    /\ pc = "loop" =>
          \A A, B \in TaskIds :
             (tasks[A].priority > tasks[B].priority /\ Decided(B)) => Decided(A)
    /\ PassReturned =>
          \A A, B \in TaskIds, e \in EmpIds :
             ( /\ tasks[A].priority > tasks[B].priority
               /\ \A f \in EmpIds : CandidateAtStart(f, A) <=> f = e
               /\ \A f \in EmpIds : CandidateAtStart(f, B) <=> f = e
               /\ StartHours(e) + tasks[A].duration + tasks[B].duration
                     > employees[e].max_hours
               /\ \A C \in TaskIds \ {A, B} : tasks[C].assigned_employee # e )
             => /\ tasks[A].assigned_employee = e
                /\ tasks[B].assigned_employee = None

\* the higher-priority task stands second in schedule.tasks, got the only
\* candidate, and the lower-priority task was turned away for hours
C11_Witness ==
    /\ PassReturned
    /\ Len(tasks) = 2
    /\ tasks[2].priority > tasks[1].priority
    /\ tasks[2].assigned_employee # None
    /\ tasks[1].assigned_employee = None
    /\ HasReason(1, "Insufficient hours available")
    /\ \A f \in EmpIds : CandidateAtStart(f, 1) <=> f = tasks[2].assigned_employee

\* task A has a deadline and B has a later one or none
DeadlineEarlier(A, B) ==
    /\ tasks[A].deadline # None
    /\ tasks[B].deadline = None \/ tasks[A].deadline < tasks[B].deadline

\* C12: among tasks of equal priority a pass decides the task with the earlier
\* deadline first, and a task without deadline after every task that has one
C12_DeadlineOrdering ==
    \A A, B \in TaskIds :
       (tasks[A].priority = tasks[B].priority /\ DeadlineEarlier(A, B)) =>
          /\ pc = "loop" => (Decided(B) => Decided(A))
          /\ (pc = "idle" /\ returned.op = "schedule_all") =>
                (Decided(A) /\ Decided(B))

\* C13: tasks with the same priority and the same deadline (or both without)
\* are decided in their order in schedule.tasks
C13_StableTaskOrder ==
    pc = "loop" =>
       \A A, B \in TaskIds :
          ( /\ A < B
            /\ tasks[A].priority = tasks[B].priority
            /\ tasks[A].deadline = tasks[B].deadline
            /\ Decided(B) ) => Decided(A)

\* two tasks with equal keys, the first decided and the second not yet
C13_Witness ==
    /\ pc = "loop"
    /\ Len(tasks) = 2
    /\ tasks[1].priority = tasks[2].priority
    /\ tasks[1].deadline = tasks[2].deadline
    /\ Decided(1)
    /\ ~Decided(2)

\* task t with employee e passes the three conditions of the eligibility test
MeetsConditions(t, e) ==
    /\ tasks[t].required_training \subseteq employees[e].training
    /\ employees[e].current_hours + tasks[t].duration <= employees[e].max_hours
    /\ employees[e].rank >= tasks[t].min_rank

\* this step of the loop commits task t
Commits(t) ==
    /\ pc = "loop"
    /\ tasks'[t].assigned_employee # tasks[t].assigned_employee

\* C14: the employee a commit selects has a score that no eligible employee
\* exceeds, and among the eligible employees with that score it is the first
\* of schedule.employees
C14_BestCandidate ==
    [][\A t \in TaskIds :
         Commits(t) =>
           LET e == tasks'[t].assigned_employee
               se == ScoreEmployeeForTask(tasks[t], employees[e])
           IN \A f \in EmpIds :
                 CanBeAssignedTo(tasks[t], employees[f]) =>
                    LET sf == ScoreEmployeeForTask(tasks[t], employees[f])
                    IN /\ sf.num * se.den <= se.num * sf.den
                       /\ sf.num * se.den = se.num * sf.den => e <= f]_vars

\* the first decision of a pass went to the first of two employees that are
\* alike in skills, rank and hours
C14_Witness ==
    /\ pc = "loop"
    /\ pos = 1
    /\ Len(employees) = 2
    /\ tasks[sorted_tasks[1]].assigned_employee = 1
    /\ employees[2].training = employees[1].training
    /\ employees[2].rank = employees[1].rank
    /\ employees[2].max_hours = employees[1].max_hours
    /\ employees[2].current_hours =
          employees[1].current_hours - tasks[sorted_tasks[1]].duration

\* C16: can_be_assigned_to is True exactly when the employee has every
\* required skill, current_hours + duration <= max_hours and rank >= min_rank;
\* so a loop step commits its task exactly when some employee meets the three
\* conditions (an exact fit included), and a step that finds nobody changes
\* no employee and no task
C16_EligibilityPredicate ==
    [][/\ \A t \in TaskIds, e \in EmpIds :
             CanBeAssignedTo(tasks[t], employees[e]) <=> MeetsConditions(t, e)
       /\ (pc = "loop" /\ pos' = pos + 1) =>
             LET t == sorted_tasks[pos + 1]
             IN /\ (tasks'[t].assigned_employee # None) <=>
                      (\E e \in EmpIds : MeetsConditions(t, e))
                /\ (tasks'[t].assigned_employee = None) =>
                      (employees' = employees /\ tasks' = tasks)]_vars

\* a task was committed to an employee it fills exactly to max_hours
C16_Witness ==
    /\ pc = "loop"
    /\ pos = 1
    /\ LET t == sorted_tasks[1]
       IN /\ tasks[t].assigned_employee # None
          /\ employees[tasks[t].assigned_employee].current_hours =
                employees[tasks[t].assigned_employee].max_hours
          /\ tasks[t].duration = employees[tasks[t].assigned_employee].max_hours

\* the kinds of reason employee e triggers for task t
TriggeredKinds(t, e) ==
    (IF tasks[t].required_training \subseteq employees[e].training
       THEN {} ELSE {"Missing required training"})
    \cup
    (IF employees[e].current_hours + tasks[t].duration <= employees[e].max_hours
       THEN {} ELSE {"Insufficient hours available"})
    \cup
    (IF employees[e].rank >= tasks[t].min_rank THEN {} ELSE {"Rank too low"})

\* C17: when a pass with a non-empty roster turns a task away, the reasons it
\* stores are the union, over all employees, of the reasons each employee
\* triggers in the state of that moment
C17_ReasonCollection ==
    [][\A t \in TaskIds :
         ( /\ pc = "loop"
           /\ t \notin DOMAIN unassigned_reasons
           /\ t \in DOMAIN unassigned_reasons'
           /\ Len(employees) > 0 )
         => /\ \E ord \in Orderings(Skills) :
                  unassigned_reasons'[t] =
                     UNION { GetUnassignmentReasons(tasks[t], employees[e], ord) :
                               e \in EmpIds }
            /\ { r.kind : r \in unassigned_reasons'[t] } =
                  UNION { TriggeredKinds(t, e) : e \in EmpIds }]_vars

\* a task was turned away by one employee for the hours an earlier commit
\* took and by the other employee for another reason
C17_Witness ==
    /\ pc = "loop"
    /\ Len(employees) = 2
    /\ \E t \in DOMAIN unassigned_reasons, e \in EmpIds :
          /\ employees[e].current_hours > 0
          /\ \E r \in unassigned_reasons[t] :
                /\ r.kind = "Insufficient hours available"
                /\ r.a = employees[e].max_hours - employees[e].current_hours
          /\ \E r \in unassigned_reasons[t] : r.kind # "Insufficient hours available"

\* C19: with an empty roster schedule_all() leaves every task unassigned
\* with exactly the reason "No employees available", and returns False when
\* there is a task
C19_EmptyRoster ==
    (pc = "idle" /\ returned.op = "schedule_all" /\ Len(employees) = 0) =>
        /\ \A t \in TaskIds :
              /\ tasks[t].assigned_employee = None
              /\ t \in DOMAIN unassigned_reasons
              /\ unassigned_reasons[t] = {NoEmployeesReason}
        /\ Len(tasks) > 0 => returned.value = "False"

\* C20: an employee triggers no reason for a task exactly when the task can
\* be assigned to that employee; so with a non-empty roster the placeholder
\* reason is never stored
C20_PlaceholderUnreachable ==
    /\ \A t \in TaskIds, e \in EmpIds, ord \in Orderings(Skills) :
          (GetUnassignmentReasons(tasks[t], employees[e], ord) = {})
             <=> CanBeAssignedTo(tasks[t], employees[e])
    /\ \A t \in DOMAIN unassigned_reasons :
          UnknownReason \notin unassigned_reasons[t]

\* a task was turned away with the rank as the only reason
C20_Witness ==
    /\ Len(employees) > 0
    /\ \E t \in DOMAIN unassigned_reasons :
          /\ unassigned_reasons[t] # {}
          /\ \A r \in unassigned_reasons[t] : r.kind = "Rank too low"

\* the rank term as the claim tabulates it
C15_RankTable(d) ==
    IF d = 0 THEN 50
    ELSE IF 0 < d /\ d <= 2 THEN 40
    ELSE IF 2 < d /\ d <= 4 THEN 20
    ELSE 10

\* C15: the rank term of the selected employee's score is 50, 40, 20 or 10
\* according to rank - min_rank, and no eligible employee with the same
\* current_hours and max_hours as the selected one has a larger rank term,
\* wherever the two stand in the roster
C15_RankFit ==
    [][\A t \in TaskIds :
         Commits(t) =>
           LET e == tasks'[t].assigned_employee
               emp == employees[e]
           IN /\ pass_scores'[t].den = emp.max_hours
              /\ pass_scores'[t].num
                    - 30 * (IF emp.max_hours - emp.current_hours > 0
                              THEN emp.max_hours - emp.current_hours ELSE 0)
                    - 20 * (emp.max_hours - emp.current_hours)
                 = C15_RankTable(emp.rank - tasks[t].min_rank) * emp.max_hours
              /\ \A f \in EmpIds :
                    ( /\ MeetsConditions(t, f)
                      /\ employees[f].current_hours = emp.current_hours
                      /\ employees[f].max_hours = emp.max_hours )
                    => C15_RankTable(employees[f].rank - tasks[t].min_rank)
                          <= C15_RankTable(emp.rank - tasks[t].min_rank)]_vars

\* the first decision of a pass went to the rank-5 employee standing second
\* in the roster, past a rank-9 employee with the same hours
C15_Witness ==
    /\ pc = "loop"
    /\ pos = 1
    /\ Len(employees) = 2
    /\ employees[1].rank = 9
    /\ employees[2].rank = 5
    /\ tasks[sorted_tasks[1]].min_rank = 5
    /\ tasks[sorted_tasks[1]].assigned_employee = 2
    /\ employees[1].training = employees[2].training
    /\ employees[1].max_hours = employees[2].max_hours
    /\ employees[1].current_hours =
          employees[2].current_hours - tasks[sorted_tasks[1]].duration

\* sorted(Skills): the alphabetical order of the skill names
SortedSkills == << "Python", "Rust" >>

\* the position of skill s in the alphabetical order
AlphaIndex(s) == CHOOSE i \in DOMAIN SortedSkills : SortedSkills[i] = s

\* C18: every stored "Missing required training" reason lists the missing
\* skills in sorted order, so the same input always gives the same string
C18_MissingSkillReason ==
    \A t \in DOMAIN unassigned_reasons :
       \A r \in unassigned_reasons[t] :
          r.kind = "Missing required training" =>
             \A i, j \in DOMAIN r.skills :
                i < j => AlphaIndex(r.skills[i]) < AlphaIndex(r.skills[j])

\* ---------------------------------------------------------------- C21
\* C21: the stored reasons are a snapshot.  A call that is not schedule_all()
\* (Schedule.reset(), a direct Task.assign_to() or Task.unassign() that
\* changes an employee's hours) leaves unassigned_reasons as it was; only a
\* schedule_all() call changes it.
C21_ReasonsSnapshot ==
    [][ (pc = "idle" /\ pc' = "idle" /\ returned'.op # "schedule_all")
            => unassigned_reasons' = unassigned_reasons ]_vars

\* a pass rejected a task, and a later direct assign_to() gave that task to
\* an employee: the reasons of the pass are still stored
C21_Witness ==
    /\ pc = "idle"
    /\ returned = [op |-> "assign_to", value |-> "True"]
    /\ \E t \in DOMAIN unassigned_reasons :
          /\ t \in TaskIds
          /\ IsAssigned(tasks[t])
          /\ HasReason(t, "Insufficient hours available")

\* ---------------------------------------------------------------- C22
\* C22: an employee with max_hours = 0 does not crash the engine.  With
\* tasks of positive duration, no employee that the loop is about to score
\* has max_hours = 0 (so the divisions of _score_employee_for_task are
\* defined), such an employee never holds a task or hours, and the workload
\* report gives it utilization 0.
C22_ZeroMaxHours ==
    /\ (pc = "loop" /\ pos < Len(sorted_tasks)) =>
          LET t == sorted_tasks[pos + 1]
              eligible == GetEligibleEmployees(tasks[t], employees)
          IN \A i \in DOMAIN eligible : ~ScoreRaises(employees[eligible[i]])
    /\ \A e \in EmpIds :
          employees[e].max_hours = 0 =>
             /\ employees[e].current_hours = 0
             /\ Utilization(employees[e]) = 0
             /\ \A t \in TaskIds : tasks[t].assigned_employee # e

\* a pass has returned over a roster with a max_hours = 0 employee that has
\* the skills and the rank of a task, and another employee took the task
C22_Witness ==
    /\ PassReturned
    /\ \E e, f \in EmpIds, t \in TaskIds :
          /\ employees[e].max_hours = 0
          /\ HasTraining(employees[e], tasks[t].required_training)
          /\ employees[e].rank >= tasks[t].min_rank
          /\ e < f
          /\ tasks[t].assigned_employee = f
          /\ Utilization(employees[f]) > 0

\* ---------------------------------------------------------------- C23
\* C23: get_completion_rate() is assigned / total * 100, lies between 0 and
\* 100, and is 100 for an empty task list; the assigned and the unassigned
\* tasks partition the task list, so the two counts of get_statistics() add
\* up to total_tasks.
C23_CompletionRate ==
    LET r     == GetCompletionRate(tasks)
        stats == GetStatistics(employees, tasks)
        done  == { t \in TaskIds : tasks[t].assigned_employee # None }
    IN /\ r.den > 0
       /\ 0 <= r.num /\ r.num <= 100 * r.den
       /\ tasks # << >> => r.num * Len(tasks) = Cardinality(done) * 100 * r.den
       /\ tasks = << >> => r.num = 100 * r.den
       /\ GetAssignedTasks(tasks) \cap GetUnassignedTasks(tasks) = {}
       /\ GetAssignedTasks(tasks) \cup GetUnassignedTasks(tasks) = TaskIds
       /\ stats.assigned_tasks + stats.unassigned_tasks = stats.total_tasks
       /\ 0 <= stats.completion_rate /\ stats.completion_rate <= 10000

\* a pass has returned with one task of two assigned: the rate is 50
C23_Witness ==
    /\ PassReturned
    /\ Len(tasks) = 2
    /\ Cardinality(GetAssignedTasks(tasks)) = 1
    /\ GetCompletionRate(tasks).num = 50 * GetCompletionRate(tasks).den
    /\ GetStatistics(employees, tasks).completion_rate = 5000

\* ---------------------------------------------------------------- C24
\* C24: a commit is irrevocable within a pass.  In every step of the
\* assignment loop a link that is set stays as it is, no employee's
\* current_hours decreases, at most one task gets a link, and a step that
\* links task t to employee e changes nothing else than that link and the
\* current_hours of e, which grow by the task's duration.
C24_IrrevocableCommit ==
    [][ pc = "loop" =>
          /\ DOMAIN tasks' = DOMAIN tasks /\ DOMAIN employees' = DOMAIN employees
          /\ \A t \in TaskIds :
                tasks[t].assigned_employee # None => tasks'[t] = tasks[t]
          /\ \A e \in EmpIds :
                employees'[e].current_hours >= employees[e].current_hours
          /\ \A t, u \in TaskIds :
                (tasks'[t] # tasks[t] /\ tasks'[u] # tasks[u]) => t = u
          /\ \A t \in TaskIds :
                tasks'[t] # tasks[t] =>
                   LET e == tasks'[t].assigned_employee
                   IN /\ e \in EmpIds
                      /\ tasks' = [tasks EXCEPT ![t].assigned_employee = e]
                      /\ employees' = [employees EXCEPT ![e].current_hours =
                                            @ + tasks[t].duration]
          /\ tasks' = tasks => employees' = employees
      ]_vars

\* the loop has committed two tasks, and the first link is still in place
C24_Witness ==
    /\ pc = "loop"
    /\ pos = 2
    /\ \E e \in EmpIds :
          /\ tasks[sorted_tasks[1]].assigned_employee = e
          /\ tasks[sorted_tasks[2]].assigned_employee # None
          /\ tasks[sorted_tasks[2]].assigned_employee # e

\* ---------------------------------------------------------------- C25
\* C25: after schedule_all(), unassigned_reasons has an entry for a task
\* exactly when the task is unassigned, and no record of
\* get_unassigned_tasks_report() carries the fallback reason "Unknown".
C25_ReasonsForUnassigned ==
    (pc = "idle" /\ returned.op = "schedule_all") =>
        /\ DOMAIN unassigned_reasons = GetUnassignedTasks(tasks)
        /\ \A t \in GetUnassignedTasks(tasks) :
              /\ GetUnassignedTasksReport(tasks, unassigned_reasons)[t]
                    = unassigned_reasons[t]
              /\ UnknownFallback \notin
                    GetUnassignedTasksReport(tasks, unassigned_reasons)[t]

\* ---------------------------------------------------------------- C26
\* C26: nothing in the engine keeps two passes apart.  Two schedule_all()
\* calls on one schedule whose steps interleave can take an employee's
\* current_hours above max_hours and away from the sum of the durations of
\* the tasks linked to the employee (C26_Witness is that state); the formula
\* is the other half: current_hours exceeds max_hours only if the second
\* call began while the first was still running.
C26_OverbookingNeedsOverlap ==
    (\E e \in EmpIds : employees[e].current_hours > employees[e].max_hours)
        => \E i \in DOMAIN threads : threads[i].overlap

\* both calls have returned; an employee is booked beyond max_hours and the
\* booked hours differ from the durations of the tasks linked to it
C26_Witness ==
    /\ \A i \in DOMAIN threads : threads[i].pc = "done"
    /\ \E i \in DOMAIN threads : threads[i].overlap
    /\ \E e \in EmpIds :
          /\ employees[e].current_hours > employees[e].max_hours
          /\ employees[e].current_hours # LinkedHours(e)

\* ---------------------------------------------------------------- C27
\* C27: Task.assign_to(employee) on a task and an employee that fail one of
\* the three conditions of can_be_assigned_to returns False and leaves every
\* link and every employee's current_hours as they were; otherwise it
\* returns True, sets the task's link to the employee and adds the task's
\* duration to that employee's current_hours, and changes nothing else.
C27_AssignToOutcome ==
    [][ \A t \in TaskIds, e \in EmpIds :
          AssignTo(t, e) =>
             IF MeetsConditions(t, e)
             THEN /\ returned'.value = "True"
                  /\ tasks' = [tasks EXCEPT ![t].assigned_employee = e]
                  /\ employees' = [employees EXCEPT ![e].current_hours =
                                        @ + tasks[t].duration]
             ELSE /\ returned'.value = "False"
                  /\ tasks' = tasks
                  /\ employees' = employees
      ]_vars

\* assign_to was refused for an employee that a pass had filled up, and the
\* employee still holds the hours of the pass
C27_Witness ==
    /\ pc = "idle"
    /\ returned = [op |-> "assign_to", value |-> "False"]
    /\ \E t \in TaskIds, e \in EmpIds :
          /\ tasks[t].assigned_employee = None
          /\ tasks[t].required_training \subseteq employees[e].training
          /\ employees[e].rank >= tasks[t].min_rank
          /\ employees[e].current_hours = employees[e].max_hours
          /\ employees[e].current_hours > 0
          /\ HasReason(t, "Insufficient hours available")

\* ---------------------------------------------------------------- C28
\* every employee's current_hours is the sum of the durations of the tasks
\* of the list that are linked to the employee
HoursMatchLinks ==
    \A e \in EmpIds : employees[e].current_hours = LinkedHours(e)

\* C28: deleting a task keeps the hours bookkeeping consistent.  When every
\* employee's current_hours matches the tasks linked to the employee, it
\* still does after delete_task has removed a task (the hours of a deleted
\* assigned task are released).
C28_DeleteTaskKeepsHours ==
    [][ ( /\ pc = "idle"
          /\ returned'.op = "delete_task"
          /\ Len(tasks') = Len(tasks) - 1
          /\ HoursMatchLinks )
        => HoursMatchLinks' ]_vars

\* ---------------------------------------------------------------- C29
\* C29: no dangling assignee.  After any sequence of add, delete and
\* generate operations of the command-line interface, every task that is
\* assigned is assigned to an employee of the current employee list.
C29_NoDanglingAssignee ==
    \A t \in TaskIds :
        tasks[t].assigned_employee # None => tasks[t].assigned_employee \in EmpIds

\* ---------------------------------------------------------------- C30
\* C30: in the web application, view_schedule after generate_schedule shows
\* for each unassigned task the reasons that the pass recorded when it
\* turned the task away, and not the fallback "Unknown".
C30_WebReasons ==
    (pc = "idle" /\ returned.op = "view_schedule" /\ since_pass = "none") =>
        \A t \in GetUnassignedTasks(tasks) :
            /\ t \in DOMAIN unassigned_reasons
            /\ t \in DOMAIN returned.value
            /\ returned.value[t] = unassigned_reasons[t]
            /\ UnknownFallback \notin returned.value[t]

====
